---- MODULE Spec2Model ----
(***************************************************************************)
(* Model of the two dashboards of the repository:                          *)
(*   src/eva.py          the Earned Value Management calculator            *)
(*   src/hospital_app.py the hospital performance dashboard                *)
(*                                                                         *)
(* Numbers.  Python floats are modelled as exact rationals <<n, d>> in     *)
(* lowest terms with d > 0; <<0, 0>> is the float NaN and <<1, 0>> marks a *)
(* raised ZeroDivisionError.  IEEE rounding and overflow are not modelled. *)
(* Money is counted in units of 500 dollars (see Dollars) so that the      *)
(* products of the S-curve stay inside TLC's 32-bit integers.  Dates are   *)
(* day numbers counted from 2023-01-01.                                    *)
(***************************************************************************)
EXTENDS Integers, Sequences, FiniteSets, TLC

VARIABLES
    \* ---- eva.py: the sidebar inputs and what the last script run produced
    bac, pv, ev, ac, start_date, finish_date, data_date,
    metrics, fig, shown,
    \* ---- eva.py: results of calling the two helper functions directly
    ret_metrics, ret_fig,
    \* ---- hospital_app.py: the two tables of hospital_data.duckdb
    cases, case_data,
    \* ---- hospital_app.py: the message the last form or upload handler showed,
    \*      and the frame read from the file of the last "Save Data" click
    notice, year_df,
    \* ---- hospital_app.py: the arguments and the result of analyze_data
    before_df, after_df, analysis,
    \* ---- hospital_app.py: what the analysis tab shows, and the result of
    \*      generate_summary
    page, summary,
    \* ---- history: how the last upload of each (case_id, year) ended, and the
    \*      number of rows, put by a completed upload, that the last completed
    \*      upload replaced (for a stopped upload: the rows its DELETE removed)
    outcome, replaced

evmVars == <<bac, pv, ev, ac, start_date, finish_date, data_date,
             metrics, fig, shown, ret_metrics, ret_fig>>

storeVars == <<cases, case_data, notice, year_df, outcome, replaced>>

analysisVars == <<before_df, after_df, analysis, page, summary>>

hospVars == <<storeVars, analysisVars>>

vars == <<evmVars, hospVars>>

----------------------------------------------------------------------------
(* Exact arithmetic standing for Python's float operators.                 *)

Abs(n) == IF n < 0 THEN -n ELSE n

RECURSIVE GCD(_, _)
GCD(a, b) == IF b = 0 THEN a ELSE GCD(b, a % b)

Norm(n, d) ==
    LET g == GCD(Abs(n), d) IN <<n \div g, d \div g>>

R(n) == <<n, 1>>
Zero == <<0, 1>>
One == <<1, 1>>
NaN == <<0, 0>>
ZeroDivisionError == <<1, 0>>
IsFinite(a) == a[2] # 0

\* a + b
RAdd(a, b) ==
    IF ~IsFinite(a) THEN a
    ELSE IF ~IsFinite(b) THEN b
    ELSE LET g == GCD(a[2], b[2])
             l == (a[2] \div g) * b[2]
         IN  Norm(a[1] * (l \div a[2]) + b[1] * (l \div b[2]), l)

RNeg(a) == IF ~IsFinite(a) THEN a ELSE <<-a[1], a[2]>>

\* a - b
RSub(a, b) == RAdd(a, RNeg(b))

\* a * b
RMul(a, b) ==
    IF ~IsFinite(a) THEN a
    ELSE IF ~IsFinite(b) THEN b
    ELSE LET g1 == GCD(Abs(a[1]), b[2])
             g2 == GCD(Abs(b[1]), a[2])
         IN  Norm((a[1] \div g1) * (b[1] \div g2), (a[2] \div g2) * (b[2] \div g1))

\* a / b : Python raises ZeroDivisionError on a zero divisor
RDiv(a, b) ==
    IF ~IsFinite(a) THEN a
    ELSE IF ~IsFinite(b) THEN b
    ELSE IF b[1] = 0 THEN ZeroDivisionError
    ELSE IF b[1] < 0 THEN RMul(a, <<-b[2], -b[1]>>)
    ELSE RMul(a, <<b[2], b[1]>>)

\* a <= b and a < b on finite values
RLeq(a, b) ==
    LET g == GCD(a[2], b[2])
    IN  a[1] * (b[2] \div g) <= b[1] * (a[2] \div g)

RLess(a, b) == RLeq(a, b) /\ a # b

\* np.power(t, k) for the two exponents the curve uses
RPow(t, k) == IF k = 2 THEN RMul(t, t) ELSE RMul(RMul(t, t), t)

\* an amount of dollars in the model's money unit
Dollars(d) == R(d \div 500)

----------------------------------------------------------------------------
(* eva.py: calculate_evm_metrics                                           *)

MetricNames == {"SV", "CV", "SPI", "CPI", "EAC_Typical", "EAC_Atypical",
                "ETC_Typical", "ETC_Atypical", "VAC", "TCPI_BAC", "TCPI_EAC"}

\* line 21 without its guard
spi_unguarded(e, p) == RDiv(e, p)

\* metrics['SPI'] = ev / pv if pv != 0 else 0
spi(e, p) == IF p # Zero THEN RDiv(e, p) ELSE Zero

\* line 22 with the operands exchanged
cpi_inverted(e, a) == IF a # Zero THEN RDiv(a, e) ELSE Zero

\* metrics['CPI'] = ev / ac if ac != 0 else 0
cpi(e, a) == IF a # Zero THEN RDiv(e, a) ELSE Zero

\* metrics['EAC_Typical'] = bac / metrics['CPI'] if metrics['CPI'] != 0 else 0
eac_typical(b, CPI) == IF CPI # Zero THEN RDiv(b, CPI) ELSE Zero

\* metrics['TCPI_BAC'] = (bac - ev) / (bac - ac) if (bac - ac) != 0 else 0
tcpi_bac(b, e, a) ==
    IF RSub(b, a) # Zero THEN RDiv(RSub(b, e), RSub(b, a)) ELSE Zero

\* line 38 dividing by the remaining budget (bac - ac) as line 37 does
tcpi_eac_on_bac(b, e, a, EAC_Typical) ==
    IF RSub(b, a) # Zero THEN RDiv(RSub(b, e), RSub(b, a)) ELSE Zero

\* metrics['TCPI_EAC'] = (bac - ev) / (EAC_Typical - ac) if (EAC_Typical - ac) != 0 else 0
tcpi_eac(b, e, a, EAC_Typical) ==
    IF RSub(EAC_Typical, a) # Zero
    THEN RDiv(RSub(b, e), RSub(EAC_Typical, a)) ELSE Zero

calculate_evm_metrics(b, p, e, a) ==
    LET SV == RSub(e, p)
        CV == RSub(e, a)
        SPI == spi(e, p)
        CPI == cpi(e, a)
        EAC_Typical == eac_typical(b, CPI)
        EAC_Atypical == RAdd(a, RSub(b, e))
        ETC_Typical == RSub(EAC_Typical, a)
        ETC_Atypical == RSub(EAC_Atypical, a)
        VAC == RSub(b, EAC_Typical)
        TCPI_BAC == tcpi_bac(b, e, a)
        TCPI_EAC == tcpi_eac(b, e, a, EAC_Typical)
        m == [SV |-> SV, CV |-> CV, SPI |-> SPI, CPI |-> CPI,
              EAC_Typical |-> EAC_Typical, EAC_Atypical |-> EAC_Atypical,
              ETC_Typical |-> ETC_Typical, ETC_Atypical |-> ETC_Atypical,
              VAC |-> VAC, TCPI_BAC |-> TCPI_BAC, TCPI_EAC |-> TCPI_EAC]
    IN  \* an exception in any line leaves the caller without a result
        IF \E k \in MetricNames : m[k] = ZeroDivisionError
        THEN [raised |-> "ZeroDivisionError"]
        ELSE m

NoMetrics == [raised |-> "not computed"]
Returned(m) == "raised" \notin DOMAIN m

----------------------------------------------------------------------------
(* eva.py: generate_s_curve_plot                                           *)

NumSamples == 100

\* go.Figure(): no trace, no line
EmptyFigure == [traces |-> <<>>, vlines |-> <<>>, hlines |-> <<>>]
NoFigure == [raised |-> "not generated"]
HasFigure(f) == "raised" \notin DOMAIN f

\* np.linspace with the end point left out (a step of (hi - lo) / n)
linspace_open(lo, hi, n) ==
    [k \in 1..n |-> RAdd(lo, RDiv(RMul(R(k - 1), RSub(hi, lo)), R(n)))]

\* np.linspace(lo, hi, n): n equally spaced values, both ends included
linspace(lo, hi, n) ==
    [k \in 1..n |-> RAdd(lo, RDiv(RMul(R(k - 1), RSub(hi, lo)), R(n - 1)))]

\* t = x_days / total_duration
t_of(x_days, total_duration) ==
    [k \in DOMAIN x_days |-> RDiv(x_days[k], R(total_duration))]

\* y_percent = 3 * np.power(t, 2) - 2 * np.power(t, 3)
y_percent(t) ==
    [k \in DOMAIN t |-> RSub(RMul(R(3), RPow(t[k], 2)), RMul(R(2), RPow(t[k], 3)))]

\* line 46 with the comparison weakened
invalid_range_strict(total_duration) == total_duration < 0

\* if total_duration <= 0: return go.Figure()
invalid_range(total_duration) == total_duration <= 0

generate_s_curve_plot(b, start, finish, data, e, a) ==
    LET total_duration == finish - start
        x_days == linspace(Zero, R(total_duration), NumSamples)
        y == y_percent(t_of(x_days, total_duration))
        pv_curve == [k \in DOMAIN y |-> RMul(b, y[k])]
        elapsed_days == data - start
    IN  IF invalid_range(total_duration) THEN EmptyFigure
        ELSE [traces |-> << [name |-> "Planned Value (PV)", x |-> x_days, y |-> pv_curve],
                            [name |-> "Earned Value (EV)",
                             x |-> <<R(elapsed_days)>>, y |-> <<e>>],
                            [name |-> "Actual Cost (AC)",
                             x |-> <<R(elapsed_days)>>, y |-> <<a>>] >>,
              vlines |-> <<elapsed_days>>,
              hlines |-> <<b>>]

----------------------------------------------------------------------------
(* eva.py: the script body, run once per interaction (lines 128-227)       *)

NothingShown == [error |-> FALSE, warning |-> FALSE, exception |-> FALSE,
                 overview |-> FALSE, chart |-> FALSE,
                 budget |-> "", schedule |-> "", status |-> ""]

\* lines 220-227 with the value 1 counted as bad on both axes
status_summary_strict(m) ==
    IF RLess(One, m.SPI) /\ RLess(One, m.CPI) THEN "Ahead of Schedule and Under Budget"
    ELSE IF RLeq(m.SPI, One) /\ RLess(One, m.CPI) THEN "Behind Schedule but Under Budget"
    ELSE IF RLess(One, m.SPI) /\ RLeq(m.CPI, One) THEN "Ahead of Schedule but Over Budget"
    ELSE "Behind Schedule and Over Budget"

\* the if / elif / elif / else of lines 220-227
status_summary(m) ==
    IF RLeq(One, m.SPI) /\ RLeq(One, m.CPI) THEN "Ahead of Schedule and Under Budget"
    ELSE IF RLess(m.SPI, One) /\ RLeq(One, m.CPI) THEN "Behind Schedule but Under Budget"
    ELSE IF RLeq(One, m.SPI) /\ RLess(m.CPI, One) THEN "Ahead of Schedule but Over Budget"
    ELSE "Behind Schedule and Over Budget"

\* what one run of the script leaves on the page: <<metrics, fig, shown>>
script(b, p, e, a, start, finish, data) ==
    IF start >= finish
    THEN <<NoMetrics, NoFigure, [NothingShown EXCEPT !.error = TRUE]>>
    ELSE IF data < start \/ data > finish
    THEN <<NoMetrics, NoFigure, [NothingShown EXCEPT !.warning = TRUE]>>
    ELSE LET m == calculate_evm_metrics(b, p, e, a)
             f == generate_s_curve_plot(b, start, finish, data, e, a)
         IN  \* an uncaught exception ends the run with a traceback on the page
             IF ~Returned(m)
             THEN <<m, NoFigure, [NothingShown EXCEPT !.exception = TRUE]>>
             ELSE
             <<m, f,
               [NothingShown EXCEPT
                  !.overview = TRUE,
                  !.chart = TRUE,
                  !.budget = IF RLess(e, a) THEN "Over Budget" ELSE "Under Budget",
                  !.schedule = IF RLess(e, p) THEN "Behind Schedule"
                               ELSE "Ahead of Schedule",
                  !.status = status_summary(m)]>>

----------------------------------------------------------------------------
(* hospital_app.py: strings.  A Python str is a tuple of one-character     *)
(* strings, so that strip() and the `in` test act on its characters.       *)

Whitespace == {" ", "\t", "\n"}

RECURSIVE lstrip(_)
lstrip(s) == IF s # <<>> /\ Head(s) \in Whitespace THEN lstrip(Tail(s)) ELSE s

RECURSIVE rstrip(_)
rstrip(s) ==
    IF s # <<>> /\ s[Len(s)] \in Whitespace THEN rstrip(SubSeq(s, 1, Len(s) - 1)) ELSE s

\* str.strip()
strip(s) == rstrip(lstrip(s))

\* sub in s
contains(s, sub) ==
    \E i \in 1..(Len(s) - Len(sub) + 1) : SubSeq(s, i, i + Len(sub) - 1) = sub

----------------------------------------------------------------------------
(* hospital_app.py: analyze_data.  A DataFrame is the sequence of its rows. *)

\* line 106 without the 'Sum' test
skip_row_keeps_sum(dept_name) ==
    \/ dept_name = <<>>
    \/ dept_name = <<"-">>

\* if not dept_name or dept_name == '-' or 'Sum' in dept_name: continue
skip_row(dept_name) ==
    \/ dept_name = <<>>
    \/ dept_name = <<"-">>
    \/ contains(dept_name, <<"S", "u", "m">>)

\* float(x or 0) on a cell of a DOUBLE column: 0.0 is falsy, NaN is truthy
float_or_zero(x) == IF x = Zero THEN Zero ELSE x

\* line 109 comparing the stored after name without strip()
matching_rows_unstripped(after, dept_name) ==
    SelectSeq(after, LAMBDA r : r.department = dept_name)

\* after_df[after_df[after_dept_col].astype(str).str.strip() == dept_name]
matching_rows(after, dept_name) ==
    SelectSeq(after, LAMBDA r : strip(r.department) = dept_name)

\* one pass of the loop body (lines 105-122): the rows it appends
variance_rows(before_row, after) ==
    LET dept_name == strip(before_row.department)
        after_row == matching_rows(after, dept_name)
        before_pct == float_or_zero(before_row.fully_met_pct)
        after_pct == float_or_zero(after_row[1].fully_met_pct)
    IN  IF skip_row(dept_name) THEN <<>>
        ELSE IF after_row = <<>> THEN <<>>
        ELSE << [Department |-> dept_name, Before |-> before_pct,
                 After |-> after_pct, Variance |-> RSub(after_pct, before_pct)] >>

RECURSIVE dept_data(_, _)
dept_data(before, after) ==
    IF before = <<>> THEN <<>>
    ELSE variance_rows(Head(before), after) \o dept_data(Tail(before), after)

analyze_data(before, after) ==
    IF before = <<>> \/ after = <<>> THEN <<>>
    ELSE dept_data(before, after)

NoAnalysis == [computed |-> FALSE, rows |-> <<>>]
Computed(rows) == [computed |-> TRUE, rows |-> rows]

----------------------------------------------------------------------------
(* hospital_app.py: generate_summary and the analysis tab's rendering.     *)
(* A comparison with a NaN operand is False, as in pandas.                 *)

\* analysis_df['Variance'] > 0
improved(rows) ==
    SelectSeq(rows, LAMBDA r : IsFinite(r.Variance) /\ RLess(Zero, r.Variance))

\* analysis_df['Variance'] < 0
declined(rows) ==
    SelectSeq(rows, LAMBDA r : IsFinite(r.Variance) /\ RLess(r.Variance, Zero))

\* analysis['Variance'] == 0
unchanged(rows) == SelectSeq(rows, LAMBDA r : r.Variance = Zero)

\* keep='last': a row goes in front of the earlier rows of equal Variance
insert_desc_last(sorted, r) ==
    LET k == Cardinality({i \in DOMAIN sorted : RLess(r.Variance, sorted[i].Variance)})
    IN  SubSeq(sorted, 1, k) \o <<r>> \o SubSeq(sorted, k + 1, Len(sorted))

\* the place of a row among rows already sorted by falling Variance: behind
\* every row that is larger or equal (the sort is stable)
insert_desc(sorted, r) ==
    LET k == Cardinality({i \in DOMAIN sorted : RLeq(r.Variance, sorted[i].Variance)})
    IN  SubSeq(sorted, 1, k) \o <<r>> \o SubSeq(sorted, k + 1, Len(sorted))

insert_asc(sorted, r) ==
    LET k == Cardinality({i \in DOMAIN sorted : RLeq(sorted[i].Variance, r.Variance)})
    IN  SubSeq(sorted, 1, k) \o <<r>> \o SubSeq(sorted, k + 1, Len(sorted))

RECURSIVE sort_desc(_)
sort_desc(rows) ==
    IF rows = <<>> THEN <<>>
    ELSE insert_desc(sort_desc(SubSeq(rows, 1, Len(rows) - 1)), rows[Len(rows)])

RECURSIVE sort_asc(_)
sort_asc(rows) ==
    IF rows = <<>> THEN <<>>
    ELSE insert_asc(sort_asc(SubSeq(rows, 1, Len(rows) - 1)), rows[Len(rows)])

\* DataFrame.nlargest(n, 'Variance') with keep='first', on rows without NaN:
\* the n rows of largest Variance, largest first, ties in original order
nlargest(n, rows) ==
    LET s == sort_desc(rows) IN SubSeq(s, 1, IF n < Len(s) THEN n ELSE Len(s))

\* DataFrame.nsmallest(n, 'Variance') with keep='first'
nsmallest(n, rows) ==
    LET s == sort_asc(rows) IN SubSeq(s, 1, IF n < Len(s) THEN n ELSE Len(s))

RECURSIVE sum_of(_)
sum_of(col) == IF col = <<>> THEN Zero ELSE RAdd(Head(col), sum_of(Tail(col)))

\* Series.mean(): NaN cells are skipped; NaN when no cell is left
mean(col) ==
    LET cells == SelectSeq(col, IsFinite)
    IN  IF cells = <<>> THEN NaN ELSE RDiv(sum_of(cells), R(Len(cells)))

NoSummary == [text |-> ""]

\* the values generate_summary puts into its text
generate_summary(rows) ==
    IF rows = <<>> THEN [text |-> "No data available for analysis."]
    ELSE LET total_before == mean([i \in DOMAIN rows |-> rows[i].Before])
             total_after == mean([i \in DOMAIN rows |-> rows[i].After])
             total_change == RSub(total_after, total_before)
             best == SelectSeq(rows, LAMBDA r : IsFinite(r.After) /\ RLeq(R(90), r.After))
         IN  [text |-> "Overall Performance",
              direction |-> IF IsFinite(total_change) /\ RLeq(Zero, total_change)
                            THEN "improved" ELSE "declined",
              total_before |-> total_before,
              total_after |-> total_after,
              total_change |-> total_change,
              n_improved |-> Len(improved(rows)),
              n_departments |-> Len(rows),
              n_declined |-> Len(declined(rows)),
              top_improved |-> nlargest(3, improved(rows)),
              top_declined |-> nsmallest(3, declined(rows)),
              best_depts |-> [i \in DOMAIN best |-> best[i].Department]]

NoPage == [rendered |-> FALSE, warning |-> "", cards |-> FALSE, charts |-> FALSE,
           improved_count |-> 0, declined_count |-> 0, unchanged_count |-> 0,
           summary |-> NoSummary]

\* lines 262-439 with the emptiness test of line 262 left out
render_analysis_always(rows, show_summary) ==
    [rendered |-> TRUE, warning |-> "", cards |-> TRUE, charts |-> TRUE,
     improved_count |-> Len(improved(rows)),
     declined_count |-> Len(declined(rows)),
     unchanged_count |-> Len(unchanged(rows)),
     summary |-> IF show_summary THEN generate_summary(rows) ELSE NoSummary]

\* what the analysis tab shows for an analysis frame (lines 262-439): the
\* warning, or the summary cards, the charts with their three counts and,
\* when session_state['show_summary'] is set, the executive summary
render_analysis(rows, show_summary) ==
    IF rows = <<>>
    THEN [NoPage EXCEPT !.rendered = TRUE,
                        !.warning = "No matching departments found between the two periods."]
    ELSE [rendered |-> TRUE, warning |-> "", cards |-> TRUE, charts |-> TRUE,
          improved_count |-> Len(improved(rows)),
          declined_count |-> Len(declined(rows)),
          unchanged_count |-> Len(unchanged(rows)),
          summary |-> IF show_summary THEN generate_summary(rows) ELSE NoSummary]

----------------------------------------------------------------------------
(* hospital_app.py: the store.  cases is the set of rows of the cases      *)
(* table; case_data is the sequence of rows of the case_data table in      *)
(* insertion order.  Of the nine data columns the model keeps department,  *)
(* fully_met (an INTEGER column) and fully_met_pct (a DOUBLE column); the   *)
(* other six are converted by the same int() and float() calls.  A cell of *)
(* an uploaded frame is a number, NaN (an empty cell) or TextCell.         *)

\* a CSV cell holding text that is no number, such as "n/a"
TextCell == <<2, 0>>

\* int(x) raises ValueError on NaN and on text that is no integer
int_raises(x) == ~IsFinite(x)
\* int(x) truncates toward zero
py_int(x) == IF x[1] >= 0 THEN x[1] \div x[2] ELSE -((-x[1]) \div x[2])
\* float(x) raises ValueError on text that is no number; float(nan) is nan
float_raises(x) == x = TextCell
py_float(x) == x

\* INSERT OR REPLACE INTO cases: a second row takes the place of the first
add_case_replacing(tbl, case_id, description, manager) ==
    [raised |-> FALSE,
     cases |-> {r \in tbl : r.case_id # case_id}
               \cup {[case_id |-> case_id, description |-> description,
                      manager |-> manager]}]

\* INSERT INTO cases: the PRIMARY KEY on case_id rejects a second row
add_case(tbl, case_id, description, manager) ==
    IF \E r \in tbl : r.case_id = case_id
    THEN [raised |-> TRUE, cases |-> tbl]
    ELSE [raised |-> FALSE,
          cases |-> tbl \cup {[case_id |-> case_id, description |-> description,
                               manager |-> manager]}]

\* SELECT case_id ... FROM cases
get_cases(tbl) == {r.case_id : r \in tbl}

\* the DELETE undone when the process stops (one transaction per upload)
stop_rolled_back(tbl, case_id, year) == tbl

\* save_case_data without its DELETE statement (line 55)
delete_rows_none(tbl, case_id, year) == tbl

\* DELETE FROM case_data WHERE case_id = ? AND year = ?
delete_rows(tbl, case_id, year) ==
    SelectSeq(tbl, LAMBDA r : ~(r.case_id = case_id /\ r.year = year))

\* the loop of INSERTs (lines 57-72); each statement commits on its own, so
\* the rows inserted before a failing one stay
RECURSIVE insert_rows(_, _, _, _)
insert_rows(tbl, case_id, rows, year) ==
    IF rows = <<>> THEN [raised |-> FALSE, case_data |-> tbl]
    ELSE LET row == Head(rows) IN
         IF int_raises(row.Fully_Met) \/ float_raises(row.Fully_Met_pct)
         THEN [raised |-> TRUE, case_data |-> tbl]
         ELSE IF \E i \in DOMAIN tbl :
                    /\ tbl[i].case_id = case_id
                    /\ tbl[i].department = row.Department
                    /\ tbl[i].year = year
         THEN [raised |-> TRUE, case_data |-> tbl]
         ELSE insert_rows(Append(tbl, [case_id |-> case_id,
                                       department |-> row.Department,
                                       fully_met |-> py_int(row.Fully_Met),
                                       fully_met_pct |-> py_float(row.Fully_Met_pct),
                                       year |-> year]),
                          case_id, Tail(rows), year)

\* the table when the process stops between line 55 and line 57: the
\* DELETE was committed on its own
stop_after_delete(tbl, case_id, year) == delete_rows(tbl, case_id, year)

save_case_data(tbl, case_id, df, year) ==
    insert_rows(delete_rows(tbl, case_id, year), case_id, df, year)

\* SELECT department, ... FROM case_data WHERE case_id = ? AND year = ?
get_case_data(tbl, case_id, year) ==
    LET hit == SelectSeq(tbl, LAMBDA r : r.case_id = case_id /\ r.year = year)
    IN  [i \in 1..Len(hit) |-> [department |-> hit[i].department,
                                fully_met |-> hit[i].fully_met,
                                fully_met_pct |-> hit[i].fully_met_pct]]

\* SELECT DISTINCT year FROM case_data WHERE case_id = ?
get_case_years(tbl, case_id) ==
    {tbl[i].year : i \in {j \in DOMAIN tbl : tbl[j].case_id = case_id}}

NoNotice == [kind |-> "", case_id |-> "", year |-> 0]

CaseIds == {"H1", "H2"}
Years == {2023, 2024}

NoUploads == [k \in CaseIds \X Years |-> "none"]

\* the state init_db leaves on a new database file, before any handler ran
EmptyStore ==
    /\ cases = {} /\ case_data = <<>> /\ notice = NoNotice
    /\ year_df = <<>>
    /\ outcome = NoUploads /\ replaced = 0

----------------------------------------------------------------------------
(* The EVM dashboard: the sidebar holds any of the input cases; the script *)
(* runs on them, and the two helper functions are also called directly.    *)

MaxDay == 3

\* amounts that make every guard of calculate_evm_metrics fire and not fire
BacVals == {Dollars(0), Dollars(45000), Dollars(100000)}
PvVals == {Dollars(0), Dollars(40000), Dollars(50000)}
EvVals == {Dollars(0), Dollars(40000), Dollars(45000), Dollars(100000)}
AcVals == {Dollars(0), Dollars(40000), Dollars(45000), Dollars(100000)}
StartDays == {0, 1}
FinishDays == (0..MaxDay) \cup {364}
DataDays == {-1, 0, 1, 180, 365}

\* the widgets' default values (lines 128-137)
DefaultInputs == [bac |-> Dollars(100000), pv |-> Dollars(50000),
                  ev |-> Dollars(40000), ac |-> Dollars(45000),
                  start_date |-> 0, finish_date |-> 364, data_date |-> 180]

EvmInputs ==
    { [DefaultInputs EXCEPT !.bac = b, !.pv = p, !.ev = e, !.ac = a] :
        b \in BacVals, p \in PvVals, e \in EvVals, a \in AcVals }
    \cup
    { [DefaultInputs EXCEPT !.bac = b, !.start_date = s, !.finish_date = f,
                            !.data_date = d] :
        b \in {Dollars(0), Dollars(100000)}, s \in StartDays, f \in FinishDays,
        d \in DataDays }

\* the EVM script and the hospital dashboard are separate programs
HospitalIdle ==
    /\ EmptyStore
    /\ before_df = <<>> /\ after_df = <<>> /\ analysis = NoAnalysis
    /\ page = NoPage /\ summary = NoSummary

InitEvm ==
    /\ \E i \in EvmInputs :
          /\ bac = i.bac /\ pv = i.pv /\ ev = i.ev /\ ac = i.ac
          /\ start_date = i.start_date /\ finish_date = i.finish_date
          /\ data_date = i.data_date
    /\ metrics = NoMetrics /\ fig = NoFigure /\ shown = NothingShown
    /\ ret_metrics = NoMetrics /\ ret_fig = NoFigure
    /\ HospitalIdle

\* one run of the script on the current sidebar values
RunScript ==
    /\ shown = NothingShown
    /\ LET out == script(bac, pv, ev, ac, start_date, finish_date, data_date)
       IN  metrics' = out[1] /\ fig' = out[2] /\ shown' = out[3]
    /\ UNCHANGED <<bac, pv, ev, ac, start_date, finish_date, data_date,
                   ret_metrics, ret_fig, hospVars>>

\* the direct calls are made once the page has loaded
Call_calculate_evm_metrics ==
    /\ shown # NothingShown
    /\ ret_metrics = NoMetrics
    /\ ret_metrics' = calculate_evm_metrics(bac, pv, ev, ac)
    /\ UNCHANGED <<bac, pv, ev, ac, start_date, finish_date, data_date,
                   metrics, fig, shown, ret_fig, hospVars>>

Call_generate_s_curve_plot ==
    /\ shown # NothingShown
    /\ ret_fig = NoFigure
    /\ ret_fig' = generate_s_curve_plot(bac, start_date, finish_date, data_date, ev, ac)
    /\ UNCHANGED <<bac, pv, ev, ac, start_date, finish_date, data_date,
                   metrics, fig, shown, ret_metrics, hospVars>>

NextEvm == RunScript \/ Call_calculate_evm_metrics \/ Call_generate_s_curve_plot

SpecEvm == InitEvm /\ [][NextEvm]_vars

----------------------------------------------------------------------------
(* Claims about calculate_evm_metrics                                      *)

\* C1: calculate_evm_metrics returns for every non-negative input, every
\* value it returns is a finite number, and each guarded ratio is 0 when its
\* denominator is 0 (SPI on PV, CPI on AC, EAC_Typical on CPI, TCPI_BAC on
\* BAC - AC, TCPI_EAC on EAC_Typical - AC).
C1_TotalWithZeroDefaults ==
    ret_metrics # NoMetrics =>
        /\ Returned(ret_metrics)
        /\ \A k \in MetricNames : IsFinite(ret_metrics[k])
        /\ pv = Zero => ret_metrics.SPI = Zero
        /\ ac = Zero => ret_metrics.CPI = Zero
        /\ ret_metrics.CPI = Zero => ret_metrics.EAC_Typical = Zero
        /\ bac = ac => ret_metrics.TCPI_BAC = Zero
        /\ ret_metrics.EAC_Typical = ac => ret_metrics.TCPI_EAC = Zero

\* a call in which the SPI, CPI, EAC_Typical and TCPI_BAC guards all fire
C1_Witness ==
    /\ ret_metrics # NoMetrics
    /\ pv = Zero /\ ac = Zero /\ bac = Zero /\ ev # Zero

\* C2: the returned values satisfy the reference formulas (each stated here
\* without division), EAC_Typical * CPI = BAC whenever CPI # 0, and the
\* default inputs BAC=100000, PV=50000, EV=40000, AC=45000 give SV=-10000,
\* CV=-5000, SPI=4/5, CPI=8/9, EAC_Typical=112500, VAC=-12500, TCPI_BAC=12/11.
C2_ReferenceFormulas ==
    ret_metrics # NoMetrics =>
        /\ Returned(ret_metrics)
        /\ LET m == ret_metrics IN
           /\ RAdd(m.SV, pv) = ev
           /\ RAdd(m.CV, ac) = ev
           /\ IF pv = Zero THEN m.SPI = Zero ELSE RMul(m.SPI, pv) = ev
           /\ IF ac = Zero THEN m.CPI = Zero ELSE RMul(m.CPI, ac) = ev
           /\ IF m.CPI = Zero THEN m.EAC_Typical = Zero
              ELSE RMul(m.EAC_Typical, m.CPI) = bac
           /\ RAdd(m.EAC_Atypical, ev) = RAdd(ac, bac)
           /\ RAdd(m.ETC_Typical, ac) = m.EAC_Typical
           /\ RAdd(m.ETC_Atypical, ac) = m.EAC_Atypical
           /\ RAdd(m.VAC, m.EAC_Typical) = bac
           /\ IF bac = ac THEN m.TCPI_BAC = Zero
              ELSE RMul(m.TCPI_BAC, RSub(bac, ac)) = RSub(bac, ev)
           /\ IF m.EAC_Typical = ac THEN m.TCPI_EAC = Zero
              ELSE RMul(m.TCPI_EAC, RSub(m.EAC_Typical, ac)) = RSub(bac, ev)
           /\ (/\ bac = Dollars(100000) /\ pv = Dollars(50000)
               /\ ev = Dollars(40000) /\ ac = Dollars(45000))
              => /\ m.SV = RNeg(Dollars(10000)) /\ m.CV = RNeg(Dollars(5000))
                 /\ m.SPI = <<4, 5>> /\ m.CPI = <<8, 9>>
                 /\ m.EAC_Typical = Dollars(112500)
                 /\ m.VAC = RNeg(Dollars(12500))
                 /\ m.TCPI_BAC = <<12, 11>>

\* the call on the concrete case of the claim
C2_Witness ==
    /\ Returned(ret_metrics)
    /\ bac = Dollars(100000) /\ pv = Dollars(50000)
    /\ ev = Dollars(40000) /\ ac = Dollars(45000)
    /\ ret_metrics.EAC_Typical = Dollars(112500)

----------------------------------------------------------------------------
(* Claims about the validation block and generate_s_curve_plot             *)

OutOfRange == finish_date > start_date
              /\ (data_date < start_date \/ data_date > finish_date)

\* C8: when DataDate lies outside [PlanStart, PlanFinish] and PlanFinish >
\* PlanStart, a run of the script shows the warning and still computes the
\* metrics from (BAC, PV, EV, AC) and draws the S-curve.
C8_WarningThenComputation ==
    (shown # NothingShown /\ OutOfRange) =>
        /\ shown.warning
        /\ Returned(metrics)
        /\ shown.overview
        /\ shown.chart
        /\ HasFigure(fig) /\ fig.traces # <<>>

\* C9: with PlanFinish <= PlanStart generate_s_curve_plot returns the empty
\* figure (no curve, no marker, no line) and a run of the script shows the
\* error and computes neither the metrics nor the curve; and every figure
\* that holds a sampled curve was made for a duration D > 0.
C9_InvalidRangeNoComputation ==
    /\ (HasFigure(ret_fig) /\ finish_date <= start_date) => ret_fig = EmptyFigure
    /\ (shown # NothingShown /\ finish_date <= start_date) =>
          /\ shown.error
          /\ ~Returned(metrics) /\ ~HasFigure(fig)
          /\ ~shown.overview /\ ~shown.chart /\ shown.status = ""
    /\ \A f \in {fig, ret_fig} :
          (HasFigure(f) /\ f.traces # <<>>) => finish_date - start_date > 0

\* the script has run and the function was called on an invalid range
C9_Witness ==
    /\ finish_date <= start_date
    /\ shown.error
    /\ ret_fig = EmptyFigure

\* the fraction 3t^2 - 2t^3 at t = i/99, over the denominator 99^3
YRef(i) == Norm(297 * i * i - 2 * i * i * i, 970299)

\* C10: for a valid range the baseline has 100 samples at x_i = i*D/99 with
\* y_i = 3t^2 - 2t^3, t = i/99; y_0 = 0, y_99 = 1, y_i never decreases, and
\* each planned value is BAC*y_i and lies in [0, BAC].
C10_BaselineCurve ==
    (HasFigure(ret_fig) /\ finish_date > start_date) =>
        LET D == finish_date - start_date
            curve == ret_fig.traces[1]
            y == y_percent(t_of(curve.x, D))
        IN  /\ Len(curve.x) = 100 /\ Len(curve.y) = 100
            /\ \A i \in 0..99 :
                 /\ curve.x[i + 1] = Norm(i * D, 99)
                 /\ y[i + 1] = YRef(i)
                 /\ curve.y[i + 1] = RMul(bac, YRef(i))
                 /\ RLeq(Zero, curve.y[i + 1]) /\ RLeq(curve.y[i + 1], bac)
            /\ y[1] = Zero /\ y[100] = One
            /\ \A i \in 1..99 : RLeq(y[i], y[i + 1])

\* a curve sampled over the default 364 days with a positive budget
C10_Witness ==
    /\ HasFigure(ret_fig) /\ ret_fig # EmptyFigure
    /\ finish_date - start_date = 364
    /\ bac = Dollars(100000)
    /\ ret_fig.traces[1].y[100] = bac

----------------------------------------------------------------------------
(* Claims about the status summary and the chart interpretation            *)

\* C14: whenever the script renders the overview, exactly one of the four
\* status messages is shown and it is the one the two thresholds SPI >= 1 and
\* CPI >= 1 select, the value 1 counting as good on both axes.
C14_FourWayStatus ==
    shown.overview =>
        LET aheadS == RLeq(One, metrics.SPI)
            underB == RLeq(One, metrics.CPI)
        IN  /\ Returned(metrics)
            /\ shown.status \in {"Ahead of Schedule and Under Budget",
                                 "Behind Schedule but Under Budget",
                                 "Ahead of Schedule but Over Budget",
                                 "Behind Schedule and Over Budget"}
            /\ shown.status = "Ahead of Schedule and Under Budget"
                   <=> (aheadS /\ underB)
            /\ shown.status = "Behind Schedule but Under Budget"
                   <=> (~aheadS /\ underB)
            /\ shown.status = "Ahead of Schedule but Over Budget"
                   <=> (aheadS /\ ~underB)
            /\ shown.status = "Behind Schedule and Over Budget"
                   <=> (~aheadS /\ ~underB)

\* a render in which both indices are exactly 1
C14_Witness ==
    /\ shown.overview
    /\ metrics.SPI = One /\ metrics.CPI = One
    /\ shown.status = "Ahead of Schedule and Under Budget"

\* C16: for AC # 0, EV # 0 and BAC # EV the returned TCPI_EAC equals the
\* returned CPI, and for CPI # 0 and BAC = EV the returned TCPI_EAC is 0.
C16_TcpiEacIsCpi ==
    ret_metrics # NoMetrics =>
        /\ Returned(ret_metrics)
        /\ (ac # Zero /\ ev # Zero /\ bac # ev)
              => ret_metrics.TCPI_EAC = ret_metrics.CPI
        /\ (ret_metrics.CPI # Zero /\ bac = ev)
              => ret_metrics.TCPI_EAC = Zero

\* a call with AC # 0, EV # 0, BAC # EV whose TCPI_EAC is the CPI 8/9 and
\* differs from TCPI_BAC
C16_Witness ==
    /\ ret_metrics # NoMetrics
    /\ ac # Zero /\ ev # Zero /\ bac # ev
    /\ ret_metrics.CPI = Norm(8, 9)
    /\ ret_metrics.TCPI_EAC = Norm(8, 9)
    /\ ret_metrics.TCPI_BAC # ret_metrics.TCPI_EAC

\* C17: in every render the interpretation says 'Over Budget' exactly when
\* the status summary says over budget (CPI < 1), and 'Behind Schedule'
\* exactly when the status summary says behind schedule (SPI < 1).
C17_InterpretationAgreesWithStatus ==
    shown.overview =>
        /\ shown.budget = "Over Budget"
              <=> shown.status \in {"Ahead of Schedule but Over Budget",
                                    "Behind Schedule and Over Budget"}
        /\ shown.schedule = "Behind Schedule"
              <=> shown.status \in {"Behind Schedule but Under Budget",
                                    "Behind Schedule and Over Budget"}

----------------------------------------------------------------------------
(* analyze_data called on the frames get_case_data can return: department  *)
(* names as stored (untrimmed, distinct within a frame by the primary key), *)
(* percentages that are numbers or NaN.                                    *)

MaxRows == 3

nA == <<"A">>
nA_sp == <<"A", " ">>
na == <<"a">>
nDash == <<"-">>
nBlank == <<" ">>
nxSum == <<"x", "S", "u", "m">>
Cardiology == <<"C", "a", "r", "d", "i", "o", "l", "o", "g", "y">>
SumTotal == <<"S", "u", "m", " ", "T", "o", "t", "a", "l">>

StoredNames == {nA, nA_sp, na, nDash, nBlank, nxSum}

DataRow(d, p) == [department |-> d, fully_met |-> 0, fully_met_pct |-> p]

BeforeRows == {DataRow(d, p) : d \in StoredNames, p \in {R(70), NaN}}
AfterRows == {DataRow(d, p) : d \in StoredNames, p \in {R(70), R(85), NaN}}

\* the frames of n rows that respect PRIMARY KEY (case_id, department, year)
Frames(rows, n) ==
    IF n = 0 THEN {<<>>}
    ELSE {f \in [1..n -> rows] :
            \A i, j \in 1..n : i # j => f[i].department # f[j].department}

ConcreteBefore == <<DataRow(Cardiology, R(70)), DataRow(nDash, R(0)),
                    DataRow(SumTotal, R(100))>>
ConcreteAfter == <<DataRow(Cardiology, R(85))>>

EvmIdle ==
    /\ bac = DefaultInputs.bac /\ pv = DefaultInputs.pv
    /\ ev = DefaultInputs.ev /\ ac = DefaultInputs.ac
    /\ start_date = DefaultInputs.start_date
    /\ finish_date = DefaultInputs.finish_date
    /\ data_date = DefaultInputs.data_date
    /\ metrics = NoMetrics /\ fig = NoFigure /\ shown = NothingShown
    /\ ret_metrics = NoMetrics /\ ret_fig = NoFigure

InitAnalyze ==
    /\ \/ \E nb \in 0..MaxRows : \E na_ \in 0..(MaxRows - nb) :
            /\ before_df \in Frames(BeforeRows, nb)
            /\ after_df \in Frames(AfterRows, na_)
       \/ before_df = ConcreteBefore /\ after_df = ConcreteAfter
    /\ analysis = NoAnalysis /\ page = NoPage /\ summary = NoSummary
    /\ EmptyStore
    /\ EvmIdle

Call_analyze_data ==
    /\ ~analysis.computed
    /\ analysis' = Computed(analyze_data(before_df, after_df))
    /\ UNCHANGED <<before_df, after_df, page, summary, storeVars, evmVars>>

\* the analysis tab with session_state['run_analysis'] set (lines 257-439);
\* the two years come from get_case_years, so each frame has a row
RunAnalysis(show_summary) ==
    /\ ~page.rendered
    /\ before_df # <<>> /\ after_df # <<>>
    /\ LET rows == analyze_data(before_df, after_df) IN
       /\ analysis' = Computed(rows)
       /\ page' = render_analysis(rows, show_summary)
    /\ UNCHANGED <<before_df, after_df, summary, storeVars, evmVars>>

Call_generate_summary ==
    /\ analysis.computed
    /\ summary = NoSummary
    /\ summary' = generate_summary(analysis.rows)
    /\ UNCHANGED <<before_df, after_df, analysis, page, storeVars, evmVars>>

NextAnalyze ==
    \/ Call_analyze_data
    \/ \E show_summary \in BOOLEAN : RunAnalysis(show_summary)
    \/ Call_generate_summary

SpecAnalyze == InitAnalyze /\ [][NextAnalyze]_vars

----------------------------------------------------------------------------
(* The analysis tab on two years of up to MaxDepts departments D1, D2, ... *)
(* whose percentages rise, fall or stay by up to two points, or are        *)
(* missing in the before year.                                             *)

MaxDepts == 4

Digits == <<"1", "2", "3", "4", "5", "6">>
Dept(i) == <<"D", Digits[i]>>

\* the <<before, after>> percentages of one department
SummaryCells ==
    {<<R(88), R(88 + v)>> : v \in -2..2} \cup {<<NaN, R(88)>>}

InitSummary ==
    /\ \E n \in 1..MaxDepts : \E c \in [1..n -> SummaryCells] :
          /\ before_df = [i \in 1..n |-> DataRow(Dept(i), c[i][1])]
          /\ after_df = [i \in 1..n |-> DataRow(Dept(i), c[i][2])]
    /\ analysis = NoAnalysis /\ page = NoPage /\ summary = NoSummary
    /\ EmptyStore
    /\ EvmIdle

SpecSummary == InitSummary /\ [][NextAnalyze]_vars

----------------------------------------------------------------------------
(* Claims about analyze_data                                               *)

TrimmedBefore == [j \in 1..Len(before_df) |-> strip(before_df[j].department)]

IsSubsequence(a, b) ==
    \E f \in [1..Len(a) -> 1..Len(b)] :
        /\ \A i, j \in 1..Len(a) : i < j => f[i] < f[j]
        /\ \A i \in 1..Len(a) : a[i] = b[f[i]]

Filtered(name) ==
    name = <<>> \/ name = <<"-">> \/ contains(name, <<"S", "u", "m">>)

Kept ==
    {j \in 1..Len(before_df) :
        /\ ~Filtered(TrimmedBefore[j])
        /\ \E i \in 1..Len(after_df) : strip(after_df[i].department) = TrimmedBefore[j]}

\* the k-th smallest element of Kept
KeptAt(k) == CHOOSE j \in Kept : Cardinality({h \in Kept : h < j}) = k - 1

\* C4: a row is emitted for a non-filtered before record exactly when some
\* after record has the same name after trimming (compared case-sensitively);
\* the row carries Before of that record, After of a matching after record
\* and Variance = After - Before; a name only in after gives no row.
C4_RowIffTrimmedMatch ==
    analysis.computed =>
        LET res == analysis.rows IN
        /\ Len(res) = Cardinality(Kept)
        /\ \A k \in 1..Len(res) :
             LET j == KeptAt(k) IN
             /\ res[k].Department = TrimmedBefore[j]
             /\ res[k].Before = before_df[j].fully_met_pct
             /\ \E i \in 1..Len(after_df) :
                  /\ strip(after_df[i].department) = TrimmedBefore[j]
                  /\ res[k].After = after_df[i].fully_met_pct
             /\ res[k].Variance = RSub(res[k].After, res[k].Before)

\* one before record matched through a name stored with a trailing blank,
\* one left out for want of a match, and an after name that gives no row
C4_Witness ==
    /\ analysis.computed
    /\ Len(analysis.rows) = 1 /\ analysis.rows[1].Variance = R(15)
    /\ Len(before_df) = 2 /\ before_df[1].department = na
    /\ before_df[2].department = nA
    /\ Len(after_df) = 1 /\ after_df[1].department = nA_sp

\* C5: no two rows of the result have the same Department.
C5_OneRowPerDepartment ==
    analysis.computed =>
        \A k, l \in 1..Len(analysis.rows) :
            k # l => analysis.rows[k].Department # analysis.rows[l].Department

\* C6: a NaN percentage, in the before record or in the matched after record,
\* is taken as 0: the row is emitted with that field 0 and Variance is
\* computed from the 0.
C6_MissingPercentageIsZero ==
    analysis.computed =>
        LET res == analysis.rows IN
        /\ Len(res) = Cardinality(Kept)
        /\ \A k \in 1..Len(res) :
             LET j == KeptAt(k) IN
             /\ before_df[j].fully_met_pct = NaN => res[k].Before = Zero
             /\ (\A i \in 1..Len(after_df) :
                    strip(after_df[i].department) = TrimmedBefore[j]
                    => after_df[i].fully_met_pct = NaN) => res[k].After = Zero
             /\ IsFinite(res[k].Variance)
             /\ res[k].Variance = RSub(res[k].After, res[k].Before)

----------------------------------------------------------------------------
(* Claims about the analysis tab and generate_summary                      *)

NoMatchingData == "No matching departments found between the two periods."

\* C13: analyze_data returns (it does not fail) the empty frame whenever the
\* before frame or the after frame is empty and whenever no before row
\* survives filtering and matching; on an empty result the tab shows the
\* 'no matching departments' warning and no cards, charts or summary.
C13_EmptyResultReported ==
    /\ analysis.computed =>
          ((before_df = <<>> \/ after_df = <<>> \/ Kept = {}) => analysis.rows = <<>>)
    /\ (page.rendered /\ analysis.rows = <<>>) =>
          /\ page.warning = NoMatchingData
          /\ ~page.cards /\ ~page.charts
          /\ page.summary = NoSummary
    /\ (page.rendered /\ analysis.rows # <<>>) => page.warning = ""

\* the tab rendered for two non-empty years that share no department
C13_Witness ==
    /\ page.rendered /\ analysis.computed
    /\ before_df # <<>> /\ after_df # <<>>
    /\ \E j \in 1..Len(before_df) : ~Filtered(TrimmedBefore[j])
    /\ analysis.rows = <<>>
    /\ page.warning = NoMatchingData

\* the rows of the analysis frame with a rise and with a fall
ImprovedAt == {i \in DOMAIN analysis.rows :
                 /\ IsFinite(analysis.rows[i].Variance)
                 /\ RLess(Zero, analysis.rows[i].Variance)}
DeclinedAt == {i \in DOMAIN analysis.rows :
                 /\ IsFinite(analysis.rows[i].Variance)
                 /\ RLess(analysis.rows[i].Variance, Zero)}
UnchangedAt == {i \in DOMAIN analysis.rows : analysis.rows[i].Variance = Zero}

\* row i is listed before row j: more extreme, or equal and earlier
MoreImproved(i, j) ==
    \/ RLess(analysis.rows[j].Variance, analysis.rows[i].Variance)
    \/ analysis.rows[i].Variance = analysis.rows[j].Variance /\ i < j
MoreDeclined(i, j) ==
    \/ RLess(analysis.rows[i].Variance, analysis.rows[j].Variance)
    \/ analysis.rows[i].Variance = analysis.rows[j].Variance /\ i < j

\* top lists the min(3, |among|) first rows of `among` in the order Before
IsTopThree(top, among, Before(_, _)) ==
    /\ Len(top) = IF Cardinality(among) < 3 THEN Cardinality(among) ELSE 3
    /\ \E f \in [1..Len(top) -> among] :
          /\ \A k \in 1..Len(top) : top[k] = analysis.rows[f[k]]
          /\ \A k, l \in 1..Len(top) : k < l => Before(f[k], f[l])
          /\ \A j \in among \ {f[k] : k \in 1..Len(top)} :
                \A k \in 1..Len(top) : Before(f[k], j)

\* C12: the counts of the tab and of the summary are the numbers of rows
\* with Variance > 0, < 0 and = 0; the summary's top improved rows are the
\* min(3, |improved|) improved rows of largest Variance and its top declined
\* rows the min(3, |declined|) declined rows of smallest Variance, each from
\* the most extreme to the least, ties in original row order.
C12_SummaryTopThree ==
    /\ page.cards =>
          /\ page.improved_count = Cardinality(ImprovedAt)
          /\ page.declined_count = Cardinality(DeclinedAt)
          /\ page.unchanged_count = Cardinality(UnchangedAt)
    /\ \A sm \in {summary, page.summary} :
          sm.text = "Overall Performance" =>
             /\ sm.n_improved = Cardinality(ImprovedAt)
             /\ sm.n_declined = Cardinality(DeclinedAt)
             /\ IsTopThree(sm.top_improved, ImprovedAt, MoreImproved)
             /\ IsTopThree(sm.top_declined, DeclinedAt, MoreDeclined)

\* a summary of four improved departments with rises 1, 2, 1, 2: the two
\* rises of 2 come first in row order, then the first rise of 1, and the
\* second rise of 1 is left out
C12_Witness ==
    /\ summary.text = "Overall Performance"
    /\ Cardinality(ImprovedAt) = 4
    /\ [i \in 1..3 |-> summary.top_improved[i].Department] = <<Dept(2), Dept(4), Dept(1)>>
    /\ analysis.rows[3].Variance = analysis.rows[1].Variance

----------------------------------------------------------------------------
(* The hospital dashboard's "Add New Case" tab: the case form and the      *)
(* upload of a year's frame (lines 441-502).                               *)

MaxUploadRows == 2

Descriptions == {"audit", "review"}

\* what is typed into the case form: case H1 under either description, case
\* H2, and forms with a required field left empty
CaseForms ==
    {<<"H1", d, "M">> : d \in Descriptions}
    \cup {<<"H2", "audit", "M">>, <<"", "audit", "M">>, <<"H1", "", "M">>,
          <<"H1", "audit", "">>}

CsvRow(d, n, p) == [Department |-> d, Fully_Met |-> n, Fully_Met_pct |-> p]

\* rows of uploaded files: two versions of department "A", a department
\* whose name ends in a blank and has an empty percentage cell, and a row
\* whose count cell is text
UploadRows == {CsvRow(nA, R(7), R(70)), CsvRow(nA, R(8), R(85)),
               CsvRow(nA_sp, R(6), NaN), CsvRow(nA_sp, TextCell, R(60))}

\* files of up to MaxUploadRows rows, no row written twice
UploadFrames ==
    UNION {IF n = 0 THEN {<<>>}
           ELSE {f \in [1..n -> UploadRows] :
                    \A i, j \in 1..n : f[i] = f[j] => i = j} : n \in 0..MaxUploadRows}

\* what is uploaded: any frame for year 2023 of case H1, and one frame for
\* year 2024 of case H1 and of case H2
UploadInputs ==
    {<<"H1", df, 2023>> : df \in UploadFrames}
    \cup {<<c, <<CsvRow(nA, R(7), R(70))>>, 2024>> : c \in CaseIds}

\* the (case_id, year) keys that receive uploads
UploadKeys == {<<u[1], u[3]>> : u \in UploadInputs}

Init ==
    /\ EmptyStore
    /\ before_df = <<>> /\ after_df = <<>> /\ analysis = NoAnalysis
    /\ page = NoPage /\ summary = NoSummary
    /\ EvmIdle

\* "Save Case" (lines 455-463)
AddCaseForm(case_id, description, manager) ==
    /\ IF case_id = "" \/ description = "" \/ manager = ""
       THEN /\ notice' = [NoNotice EXCEPT !.kind = "Please fill in all required fields"]
            /\ cases' = cases
       ELSE LET r == add_case(cases, case_id, description, manager) IN
            /\ cases' = r.cases
            /\ notice' = [NoNotice EXCEPT
                             !.kind = IF r.raised THEN "Error: Case ID may already exist"
                                      ELSE "Case created successfully",
                             !.case_id = case_id]
    /\ replaced' = 0
    /\ UNCHANGED <<case_data, year_df, outcome, analysisVars, evmVars>>

\* "Save Data" (lines 496-502) for a case chosen among the stored ones
SaveData(case_id, df, year) ==
    /\ case_id \in get_cases(cases)
    /\ year_df' = df
    /\ LET r == save_case_data(case_data, case_id, df, year) IN
       /\ case_data' = r.case_data
       /\ notice' = [kind |-> IF r.raised THEN "Error reading CSV" ELSE "Data saved",
                     case_id |-> case_id, year |-> year]
       /\ outcome' = [outcome EXCEPT ![<<case_id, year>>] =
                                        IF r.raised THEN "failed" ELSE "saved"]
       /\ replaced' = IF ~r.raised /\ outcome[<<case_id, year>>] = "saved"
                      THEN Len(get_case_data(case_data, case_id, year))
                      ELSE 0
    /\ UNCHANGED <<cases, analysisVars, evmVars>>

\* the process stops inside save_case_data after the DELETE of line 55 has
\* committed and before the first INSERT; the page that is loaded next shows
\* no message and holds no uploaded file.  (A stop that finds no row under
\* the key leaves the table as it was and is not a step of its own.)
StopInSave(case_id, year) ==
    /\ case_id \in get_cases(cases)
    /\ get_case_data(case_data, case_id, year) # <<>>
    /\ case_data' = stop_after_delete(case_data, case_id, year)
    /\ notice' = NoNotice
    /\ year_df' = <<>>
    /\ outcome' = [outcome EXCEPT ![<<case_id, year>>] = "stopped"]
    /\ replaced' = Len(get_case_data(case_data, case_id, year))
    /\ UNCHANGED <<cases, analysisVars, evmVars>>

Next ==
    \/ \E f \in CaseForms : AddCaseForm(f[1], f[2], f[3])
    \/ \E u \in UploadInputs : SaveData(u[1], u[2], u[3])
    \/ \E k \in UploadKeys : StopInSave(k[1], k[2])

Spec == Init /\ [][Next]_vars

----------------------------------------------------------------------------
(* Claims about save_case_data and get_case_data                           *)

\* the rows of an uploaded frame as the INSERT stores them
StoredForm(df) ==
    [i \in 1..Len(df) |->
        [department |-> df[i].Department,
         fully_met |-> df[i].Fully_Met[1] \div df[i].Fully_Met[2],
         fully_met_pct |-> df[i].Fully_Met_pct]]

\* C7: when an upload for (c, y) completes, get_case_data(c, y) returns
\* exactly the rows of the uploaded frame, in its order, and nothing else; in
\* particular, when an earlier upload for the same (c, y) had completed,
\* nothing of the first frame is left.
C7_ReuploadReplaces ==
    notice.kind = "Data saved"
    => get_case_data(case_data, notice.case_id, notice.year) = StoredForm(year_df)

\* a completed upload of one row has replaced the two rows that the
\* completed upload before it had put under the same key
C7_Witness ==
    /\ notice.kind = "Data saved"
    /\ replaced = 2
    /\ Len(year_df) = 1
    /\ Len(get_case_data(case_data, notice.case_id, notice.year)) = 1

----------------------------------------------------------------------------
(* Claims about the cases table and about uploads that do not complete     *)

AlreadyExists == "Error: Case ID may already exist"

\* C11: the cases table holds at most one case per case_id; a step never
\* changes or removes a stored case; the form reports success only for a
\* case_id that was not in use, and for a case_id in use it reports the
\* 'may already exist' error and leaves both tables as they were.
C11_DuplicateCaseRejected ==
    [][/\ \A r1, r2 \in cases' : r1.case_id = r2.case_id => r1 = r2
       /\ \A r \in cases : r \in cases'
       /\ notice'.kind = "Case created successfully"
             => notice'.case_id \notin get_cases(cases)
       /\ notice'.kind = AlreadyExists
             => /\ notice'.case_id \in get_cases(cases)
                /\ cases' = cases
                /\ case_data' = case_data]_vars

\* case H1, stored as an audit with data uploaded, has been submitted again
\* and the form has answered with the error
C11_Witness ==
    /\ notice.kind = AlreadyExists /\ notice.case_id = "H1"
    /\ [case_id |-> "H1", description |-> "audit", manager |-> "M"] \in cases
    /\ get_case_data(case_data, "H1", 2023) # <<>>

\* C15: after a stop between the DELETE and the first INSERT of an upload
\* for (c, y), get_case_data(c, y) is empty and get_case_years(c) does not
\* contain y, until the next upload for (c, y).
C15_StopLeavesKeyEmpty ==
    \A k \in UploadKeys :
        outcome[k] = "stopped" =>
            /\ get_case_data(case_data, k[1], k[2]) = <<>>
            /\ k[2] \notin get_case_years(case_data, k[1])

\* an upload for (H1, 2023), which held two rows of a completed upload, has
\* stopped after its DELETE; the other year of H1 still has its row
C15_Witness ==
    /\ outcome[<<"H1", 2023>>] = "stopped"
    /\ replaced = 2
    /\ notice = NoNotice
    /\ get_case_data(case_data, "H1", 2023) = <<>>
    /\ get_case_years(case_data, "H1") = {2024}

\* C18: an upload that ends with the error message leaves, for every
\* (case_id, year), the rows get_case_data returned before it.
C18_FailedUploadLeavesStore ==
    [][notice'.kind = "Error reading CSV"
       => \A c \in CaseIds, y \in Years :
             get_case_data(case_data', c, y) = get_case_data(case_data, c, y)]_vars

====
